---- MODULE Spec2Model ----
(***************************************************************************)
(* Client connection manager of the director console: the React provider   *)
(* WebSocketProvider (ui/src/components/WebSocketProvider.jsx and its      *)
(* second copy, unnamed/part_000, which differs in the chat reducer).      *)
(* The browser's WebSocket and timer objects are the environment: a        *)
(* callback of the provider is one action, guarded by the transport state  *)
(* in which the browser dispatches it.                                     *)
(* The hub the provider talks to (BroadcastHub, ClientSession) is not      *)
(* among the repository's files; its operations follow the design          *)
(* specification, sections 3 to 6.                                         *)
(***************************************************************************)
EXTENDS Integers, Sequences, FiniteSets, TLC

VARIABLES
    build,              \* which copy of the provider runs: "ui" or "part_000"
    chat, mood, memory, scene, narrative,   \* useState cells of the provider
    wsRef,              \* wsRef.current: socket id, 0 = null
    reconnectTimeout,   \* reconnectTimeout.current: timer id, 0 = null
    ws,                 \* `let ws` of the effect closure: socket id, 0 = undefined
    reconnectAttempts,  \* `let reconnectAttempts` of the effect closure
    sockets,            \* sockets[i]: readyState of the i-th WebSocket created
    timers,             \* timers[i]: the i-th setTimeout: delay, attempt, state
    unmounted,          \* the effect cleanup has run
    lastSeq,            \* history: highest envelope sequence delivered per topic
    delayLog,           \* history: delays scheduled since the last onopen
    seen,               \* history: statuses under which the current value was exposed
    envCount,           \* history: envelopes delivered so far
    envCap, sockCap, seqCap,  \* exploration budget of this run (fixed by Init)
    \* the hub side (spec 4.1, 4.2)
    hubState,           \* TopicState: authoritative state of each topic
    hubSeq,             \* TopicState: last sequence number assigned per topic
    topicLock,          \* per-topic exclusive section: its holder, or "free"
    producers,          \* each producer's position in its Publish call
    sessionState,       \* ClientSession state machine
    subscribed,         \* the hub's set of subscribed sessions
    queue,              \* ClientSession outbound queue
    written,            \* history: envelopes each session wrote to its transport
    returned,           \* history: per topic, sequence numbers in order of effect
    pubCount, pubCap,   \* publishes started; exploration budget (fixed by Init)
    \* the chat panel (ui/src/components/ChatFeed.jsx)
    messages,           \* useState cell `messages`: the displayed list
    loading, initialLoading,  \* useState cells of the spinner
    fetches,            \* fetches[i]: the i-th GET /api/tvshow/chat/history
    posts,              \* posts[i]: the i-th POST /api/tvshow/chat
    refetch,            \* pending setTimeout(fetchChatHistory, 100) timers
    serverHistory,      \* the chat history the server answers from
    sentByUser          \* history: user messages sendMessage put on display

clientVars == <<build, chat, mood, memory, scene, narrative, wsRef,
                reconnectTimeout, ws, reconnectAttempts, sockets, timers,
                unmounted, lastSeq, delayLog, seen, envCount, envCap, sockCap,
                seqCap>>

hubVars == <<hubState, hubSeq, topicLock, producers, sessionState, subscribed,
             queue, written, returned, pubCount, pubCap>>

feedVars == <<messages, loading, initialLoading, fetches, posts, refetch,
              serverHistory, sentByUser>>

vars == <<clientVars, hubVars, feedVars>>

connVars == <<wsRef, reconnectTimeout, ws, reconnectAttempts, sockets, timers,
              unmounted, delayLog>>

----------------------------------------------------------------------------
(* Program constants *)

ChatLimit == 50
MaxReconnectAttempts == 10
BaseDelay == 1000
\* the code has no separate cap: the largest delay it can schedule
MaxDelay == BaseDelay * MaxReconnectAttempts

(* Exploration bounds *)

MaxSockets == 12       \* sockets created in one run of the lifecycle model
MaxEnvelopes == 1      \* envelopes delivered in one run of the lifecycle model
MaxReducerEnvelopes == 2   \* envelopes delivered in one run of the reducer model
MaxSeq == 2            \* envelope sequence numbers 1..MaxSeq

Builds == {"ui", "part_000"}
Topics == {"chat", "mood", "memory", "scene", "narrative"}

----------------------------------------------------------------------------
(* Wire data *)

Msg(c, t, ts) == [character_id |-> c, content |-> t, timestamp |-> ts]

\* a server history of n messages, oldest first, timestamps 1..n
History(n) == [i \in 1..n |-> Msg("max", "h", i)]

HistoryLens == {0, ChatLimit, ChatLimit + 1}

DeltaMsgs == { Msg("leo", "a", ChatLimit + 10),     \* new
               Msg("leo", "b", ChatLimit + 11),     \* new, other content
               Msg("max", "h", ChatLimit),          \* equal to History(50)[50]
               Msg("max", "h", 0) }                 \* older copy of the last line

ChatPayloads == { [history |-> History(n)] : n \in HistoryLens }
                \cup { [message |-> m] : m \in DeltaMsgs }

MoodPayloads == { ("max" :> "joy"), ("leo" :> "curiosity"), ("max" :> "calm") }

MemoryPayloads == { [character_id |-> "max", log |-> <<"e1">>],
                    [character_id |-> "max", log |-> <<"e2">>],
                    [character_id |-> "leo", log |-> <<"e1">>] }

ScenePayloads == { "scene1", "scene2" }

NarrativePayloads == { <<"arc1">>, <<"arc1", "arc2">> }

\* The wire object the provider reads has only type and payload.  The kind of
\* an envelope is not on the wire: a chat payload with a history is the chat
\* snapshot, and for the other topics a snapshot is an envelope whose payload is
\* the hub's full state of the topic.  The sequence number n of an envelope is
\* the hub's metadata; the provider never reads it.

----------------------------------------------------------------------------
(* Reducers of ws.onmessage *)

Last(s, n) == IF Len(s) <= n THEN s ELSE SubSeq(s, Len(s) - n + 1, Len(s))

\* mutant of AppendChatUi: the message is put in front
AppendChatUiFront(prev, m) == Last(<<m>> \o prev, ChatLimit)

\* ui/src/components/WebSocketProvider.jsx:35
AppendChatUi(prev, m) == Last(Append(prev, m), ChatLimit)

\* unnamed/part_000:37-58
AppendChatDedup(prev, m) ==
    IF /\ Len(prev) > 0
       /\ m.timestamp <= prev[Len(prev)].timestamp
       /\ m.character_id = prev[Len(prev)].character_id
       /\ m.content = prev[Len(prev)].content
    THEN prev
    ELSE IF \E i \in 1..Len(prev) :
               /\ prev[i].timestamp = m.timestamp
               /\ prev[i].character_id = m.character_id
               /\ prev[i].content = m.content
         THEN prev
         ELSE Last(Append(prev, m), ChatLimit)

AppendChat(b, prev, m) ==
    IF b = "ui" THEN AppendChatUi(prev, m) ELSE AppendChatDedup(prev, m)

\* case 'chat'
ReduceChat(b, prev, p) ==
    IF "history" \in DOMAIN p THEN p.history
    ELSE IF "message" \in DOMAIN p THEN AppendChat(b, prev, p.message)
    ELSE prev

\* mutant of ReduceMood: the payload replaces the mapping
ReduceMoodReplace(prev, p) == p

\* case 'mood': { ...prev, ...payload }
ReduceMood(prev, p) == p @@ prev

\* mutant of ReduceMemory: the log is appended to the character's log
ReduceMemoryAppend(prev, p) ==
    (p.character_id :>
        ((IF p.character_id \in DOMAIN prev THEN prev[p.character_id] ELSE <<>>)
            \o p.log)) @@ prev

\* case 'memory': { ...prev, [character_id]: log }
ReduceMemory(prev, p) == (p.character_id :> p.log) @@ prev

\* the context value handed to consumers
value == [chat |-> chat, mood |-> mood, memory |-> memory, scene |-> scene,
          narrative |-> narrative]

----------------------------------------------------------------------------
(* Transport and timer objects *)

\* WebSocket.close(): only a connecting or open socket starts closing
Close(socks, i) ==
    IF i = 0 THEN socks
    ELSE [socks EXCEPT ![i] = IF @ \in {"CONNECTING", "OPEN"} THEN "CLOSING" ELSE @]

\* a timer that fired or was cleared: nothing of it matters any more
Spent == [delay |-> 0, attempt |-> 0, state |-> "spent"]

\* clearTimeout(id): a timer that fired or was cleared is left alone
ClearTimeout(ts, id) ==
    IF id = 0 THEN ts
    ELSE [ts EXCEPT ![id] = Spent]

\* mutants of Backoff: a constant delay; a delay that shrinks with the attempts
BackoffConstant(attempt) == BaseDelay
BackoffShrinking(attempt) == BaseDelay * (MaxReconnectAttempts - attempt)

\* 1000 * (reconnectAttempts + 1)
Backoff(attempt) == BaseDelay * (attempt + 1)

Max(a, b) == IF a >= b THEN a ELSE b
Min(a, b) == IF a <= b THEN a ELSE b

SomeOpen(socks) == \E i \in DOMAIN socks : socks[i] = "OPEN"
SomeLive(socks) == \E i \in DOMAIN socks : socks[i] # "CLOSED"
PendingTimers(ts) == { i \in DOMAIN ts : ts[i].state = "pending" }

\* what a consumer could be told about the connection in a state
Status(socks, ts, attempts) ==
    IF SomeOpen(socks) THEN "connected"
    ELSE IF PendingTimers(ts) # {} THEN "retrying"
    ELSE IF ~SomeLive(socks) /\ attempts >= MaxReconnectAttempts THEN "exhausted"
    ELSE "other"

\* bookkeeping: was the value consumers hold now also handed to them while the
\* manager was connected, or while a retry was pending
RecordView ==
    seen' = (IF value' = value THEN seen ELSE {}) \cup
            ({Status(sockets', timers', reconnectAttempts')}
                \cap {"connected", "retrying"})

----------------------------------------------------------------------------
(* Callbacks of the provider *)

\* mutant of connect: the timer is an interval, it stays pending after it fired
connectInterval(t) ==
    /\ t \in PendingTimers(timers)
    /\ Len(sockets) < sockCap
    /\ sockets' = Append(sockets, "CONNECTING")
    /\ ws' = Len(sockets) + 1
    /\ wsRef' = Len(sockets) + 1
    /\ UNCHANGED <<build, chat, mood, memory, scene, narrative, reconnectTimeout,
                   reconnectAttempts, unmounted, lastSeq, delayLog, envCount,
                   envCap, sockCap, seqCap, timers>>
    /\ UNCHANGED <<hubVars, feedVars>>
    /\ RecordView

\* connect(), run by the reconnect timer t
connect(t) ==
    /\ t \in PendingTimers(timers)
    /\ Len(sockets) < sockCap
    /\ timers' = [timers EXCEPT ![t] = Spent]
    /\ sockets' = Append(sockets, "CONNECTING")
    /\ ws' = Len(sockets) + 1
    /\ wsRef' = Len(sockets) + 1
    /\ UNCHANGED <<build, chat, mood, memory, scene, narrative, reconnectTimeout,
                   reconnectAttempts, unmounted, lastSeq, delayLog, envCount,
                   envCap, sockCap, seqCap>>
    /\ UNCHANGED <<hubVars, feedVars>>
    /\ RecordView

\* mutant of onopen: the attempt counter is not reset
onopenNoReset(s) ==
    /\ s \in DOMAIN sockets
    /\ sockets[s] = "CONNECTING"
    /\ sockets' = [sockets EXCEPT ![s] = "OPEN"]
    /\ UNCHANGED <<build, chat, mood, memory, scene, narrative, wsRef,
                   reconnectTimeout, ws, timers, unmounted, lastSeq, envCount,
                   envCap, sockCap, seqCap, reconnectAttempts, delayLog>>
    /\ UNCHANGED <<hubVars, feedVars>>
    /\ RecordView

\* ws.onopen of socket s
onopen(s) ==
    /\ s \in DOMAIN sockets
    /\ sockets[s] = "CONNECTING"
    /\ sockets' = [sockets EXCEPT ![s] = "OPEN"]
    /\ reconnectAttempts' = 0
    /\ delayLog' = <<>>
    /\ UNCHANGED <<build, chat, mood, memory, scene, narrative, wsRef,
                   reconnectTimeout, ws, timers, unmounted, lastSeq, envCount,
                   envCap, sockCap, seqCap>>
    /\ UNCHANGED <<hubVars, feedVars>>
    /\ RecordView

\* mutant of ScheduleReconnect: only the first loss is followed by a retry
ScheduleReconnectOnce ==
    IF reconnectAttempts < 1
    THEN /\ timers' = Append(timers, [delay |-> Backoff(reconnectAttempts),
                                      attempt |-> reconnectAttempts,
                                      state |-> "pending"])
         /\ reconnectTimeout' = Len(timers) + 1
         /\ reconnectAttempts' = reconnectAttempts + 1
         /\ delayLog' = Append(delayLog, Backoff(reconnectAttempts))
    ELSE UNCHANGED <<timers, reconnectTimeout, reconnectAttempts, delayLog>>

\* body of ws.onclose
ScheduleReconnect ==
    IF reconnectAttempts < MaxReconnectAttempts
    THEN /\ timers' = Append(timers, [delay |-> Backoff(reconnectAttempts),
                                      attempt |-> reconnectAttempts,
                                      state |-> "pending"])
         /\ reconnectTimeout' = Len(timers) + 1
         /\ reconnectAttempts' = reconnectAttempts + 1
         /\ delayLog' = Append(delayLog, Backoff(reconnectAttempts))
    ELSE UNCHANGED <<timers, reconnectTimeout, reconnectAttempts, delayLog>>

\* mutant of onclose: the close event arrives while s still counts as open
oncloseHalfOpen(s) ==
    /\ s \in DOMAIN sockets
    /\ sockets[s] \in {"OPEN", "CLOSING"}
    /\ Len(timers) < sockCap
    /\ sockets' = sockets
    /\ ScheduleReconnect
    /\ UNCHANGED <<build, chat, mood, memory, scene, narrative, wsRef, ws,
                   unmounted, lastSeq, envCount, envCap, sockCap, seqCap>>
    /\ UNCHANGED <<hubVars, feedVars>>
    /\ RecordView

\* ws.onclose of socket s: the connection of s was closed without a failure
onclose(s) ==
    /\ s \in DOMAIN sockets
    /\ sockets[s] \in {"OPEN", "CLOSING"}
    /\ sockets' = [sockets EXCEPT ![s] = "CLOSED"]
    /\ ScheduleReconnect
    /\ UNCHANGED <<build, chat, mood, memory, scene, narrative, wsRef, ws,
                   unmounted, lastSeq, envCount, envCap, sockCap, seqCap>>
    /\ UNCHANGED <<hubVars, feedVars>>
    /\ RecordView

\* ws.onerror of socket s: the connection of s failed; the browser sets s
\* CLOSED, fires error and then close in the same task
onerror(s) ==
    /\ s \in DOMAIN sockets
    /\ sockets[s] \in {"CONNECTING", "OPEN", "CLOSING"}
    /\ sockets' = Close([sockets EXCEPT ![s] = "CLOSED"], ws)
    /\ ScheduleReconnect
    /\ UNCHANGED <<build, chat, mood, memory, scene, narrative, wsRef, ws,
                   unmounted, lastSeq, envCount, envCap, sockCap, seqCap>>
    /\ UNCHANGED <<hubVars, feedVars>>
    /\ RecordView

\* the effect's cleanup function (the provider unmounts)
cleanup ==
    /\ ~unmounted
    /\ unmounted' = TRUE
    /\ sockets' = Close(sockets, wsRef)
    /\ timers' = ClearTimeout(timers, reconnectTimeout)
    /\ UNCHANGED <<build, chat, mood, memory, scene, narrative, wsRef,
                   reconnectTimeout, ws, reconnectAttempts, lastSeq, delayLog,
                   envCount, envCap, sockCap, seqCap>>
    /\ UNCHANGED <<hubVars, feedVars>>
    /\ RecordView

\* what every delivery of a message event to ws.onmessage of socket s shares
Delivered(s, T, n) ==
    /\ s \in DOMAIN sockets
    /\ sockets[s] = "OPEN"
    /\ envCount < envCap
    /\ envCount' = envCount + 1
    /\ lastSeq' = IF T \in Topics THEN [lastSeq EXCEPT ![T] = Max(@, n)] ELSE lastSeq
    /\ UNCHANGED <<build, envCap, sockCap, seqCap>>
    /\ UNCHANGED connVars

onmessageChat(s, n, p) ==
    /\ Delivered(s, "chat", n)
    /\ chat' = ReduceChat(build, chat, p)
    /\ UNCHANGED <<mood, memory, scene, narrative>>
    /\ UNCHANGED <<hubVars, feedVars>>
    /\ RecordView

onmessageMood(s, n, p) ==
    /\ Delivered(s, "mood", n)
    /\ mood' = ReduceMood(mood, p)
    /\ UNCHANGED <<chat, memory, scene, narrative>>
    /\ UNCHANGED <<hubVars, feedVars>>
    /\ RecordView

onmessageMemory(s, n, p) ==
    /\ Delivered(s, "memory", n)
    /\ memory' = ReduceMemory(memory, p)
    /\ UNCHANGED <<chat, mood, scene, narrative>>
    /\ UNCHANGED <<hubVars, feedVars>>
    /\ RecordView

\* mutant of onmessageScene: the case has no break and runs into 'narrative'
onmessageSceneFallsThrough(s, n, p) ==
    /\ Delivered(s, "scene", n)
    /\ scene' = p
    /\ narrative' = <<p>>
    /\ UNCHANGED <<chat, mood, memory>>
    /\ UNCHANGED <<hubVars, feedVars>>
    /\ RecordView

\* mutant of onmessageScene: a scene, once set, is kept
onmessageSceneKeep(s, n, p) ==
    /\ Delivered(s, "scene", n)
    /\ scene' = IF scene = "null" THEN p ELSE scene
    /\ UNCHANGED <<chat, mood, memory, narrative>>
    /\ UNCHANGED <<hubVars, feedVars>>
    /\ RecordView

onmessageScene(s, n, p) ==
    /\ Delivered(s, "scene", n)
    /\ scene' = p
    /\ UNCHANGED <<chat, mood, memory, narrative>>
    /\ UNCHANGED <<hubVars, feedVars>>
    /\ RecordView

onmessageNarrative(s, n, p) ==
    /\ Delivered(s, "narrative", n)
    /\ narrative' = p
    /\ UNCHANGED <<chat, mood, memory, scene>>
    /\ UNCHANGED <<hubVars, feedVars>>
    /\ RecordView

\* default: a type that is none of the five topics
onmessageDefault(s) ==
    /\ Delivered(s, "status", 0)
    /\ UNCHANGED <<chat, mood, memory, scene, narrative>>
    /\ UNCHANGED <<hubVars, feedVars>>
    /\ RecordView

\* envelopes that do not decode: text that is not JSON, and a known type
\* without a payload.  JSON.parse and data.payload.history throw inside the
\* try block; spreading an undefined mood payload adds nothing; setScene is
\* handed the undefined payload.  (For 'memory' the payload is read inside the
\* state updater, which React runs outside the try block: not an input here.)
MalformedKinds == {"json", "chat", "mood", "scene"}

onmessageMalformed(s, k) ==
    /\ Delivered(s, "malformed", 0)
    /\ scene' = IF k = "scene" THEN "undefined" ELSE scene
    /\ UNCHANGED <<chat, mood, memory, narrative>>
    /\ UNCHANGED <<hubVars, feedVars>>
    /\ RecordView

\* ws.onmessage of socket s
onmessage(s) ==
    \/ \E n \in 1..seqCap, p \in ChatPayloads : onmessageChat(s, n, p)
    \/ \E n \in 1..seqCap, p \in MoodPayloads : onmessageMood(s, n, p)
    \/ \E n \in 1..seqCap, p \in MemoryPayloads : onmessageMemory(s, n, p)
    \/ \E n \in 1..seqCap, p \in ScenePayloads : onmessageScene(s, n, p)
    \/ \E n \in 1..seqCap, p \in NarrativePayloads : onmessageNarrative(s, n, p)
    \/ onmessageDefault(s)
    \/ \E k \in MalformedKinds : onmessageMalformed(s, k)

----------------------------------------------------------------------------
(* The hub: BroadcastHub, TopicState, ClientSession (spec 3, 4.1, 4.2, 5) *)

Producers == {"character_engine", "mood_engine"}
Sessions == {"s1", "s2"}

\* bounds of the hub exploration
MaxPublishes == 3
MaxFanoutPublishes == 2
QueueBound == 6       \* the session's outbound queue size ("default small")
HistoryK == 2         \* capacity K of the bounded history

InvalidPayload == -1

TopicOrder == <<"chat", "mood", "memory", "scene", "narrative">>

\* spec 3: chat message {source, destination, content, timestamp}
HubMsg(src, dst, t, ts) ==
    [source |-> src, destination |-> dst, content |-> t, timestamp |-> ts]

\* payloads a producer hands to Publish, per topic
HubPayloads(T) ==
    CASE T = "chat" -> { [message |-> HubMsg("max", "all", "hi", 100)],
                         [message |-> HubMsg("leo", "max", "yo", 101)] }
      [] T = "mood" -> { ("max" :> "joy"), ("leo" :> "curiosity") }
      [] T = "memory" -> { [character_id |-> "max", log |-> <<"e1">>] }
      [] T = "scene" -> {"scene1"}
      [] T = "narrative" -> {<<"arc1">>}

EmptyState ==
    [chat |-> <<>>, mood |-> <<>>, memory |-> <<>>, scene |-> "null",
     narrative |-> <<>>]

LogOf(mem, c) == IF c \in DOMAIN mem THEN mem[c] ELSE <<>>

\* mutant of ApplyPayload: a full history keeps its entries and drops the new one
ApplyPayloadKeepOldest(T, st, p) ==
    CASE T = "chat" -> SubSeq(Append(st, p.message), 1, Min(Len(st) + 1, HistoryK))
      [] T = "mood" -> p @@ st
      [] T = "memory" ->
            (p.character_id :>
                SubSeq(LogOf(st, p.character_id) \o p.log, 1,
                       Min(Len(LogOf(st, p.character_id) \o p.log), HistoryK)))
                @@ st
      [] T = "scene" -> p
      [] T = "narrative" -> p

\* the topic's merge rule (spec 3): append for chat and memory, bounded by K;
\* key-merge for mood; replace for scene and narrative
ApplyPayload(T, st, p) ==
    CASE T = "chat" -> Last(Append(st, p.message), HistoryK)
      [] T = "mood" -> p @@ st
      [] T = "memory" ->
            (p.character_id :> Last(LogOf(st, p.character_id) \o p.log, HistoryK))
                @@ st
      [] T = "scene" -> p
      [] T = "narrative" -> p

Envelope(T, k, n, p) == [topic |-> T, kind |-> k, sequence |-> n, payload |-> p]

\* wire payload of the delta fanned out for a publish of p that led to state st:
\* a memory envelope carries the character's full log (spec 6)
DeltaPayload(T, st, p) ==
    IF T = "memory"
    THEN [character_id |-> p.character_id, log |-> st[p.character_id]]
    ELSE p

\* wire payload of the snapshot of topic T in state st
SnapshotPayload(T, st) == IF T = "chat" THEN [history |-> st] ELSE st

\* what Subscribe returns: one snapshot envelope per topic
Snapshots(state, seqs) ==
    [i \in 1..Len(TopicOrder) |->
        Envelope(TopicOrder[i], "snapshot", seqs[TopicOrder[i]],
                 SnapshotPayload(TopicOrder[i], state[TopicOrder[i]]))]

Idle == [pc |-> "idle", topic |-> "chat", payload |-> "none", n |-> 0, result |-> 0]

\* mutant of PublishAcquire: the exclusive section is not exclusive
PublishAcquireUnlocked(p, T, payload) ==
    /\ producers[p].pc = "idle"
    /\ pubCount < pubCap
    /\ topicLock' = [topicLock EXCEPT ![T] = p]
    /\ producers' = [producers EXCEPT ![p] =
                        [pc |-> "assigned", topic |-> T, payload |-> payload,
                         n |-> hubSeq[T] + 1, result |-> 0]]
    /\ pubCount' = pubCount + 1
    /\ UNCHANGED <<hubState, hubSeq, sessionState, subscribed, queue, written,
                   returned, pubCap>>
    /\ UNCHANGED <<clientVars, feedVars>>

\* Publish(T, delta, payload) by producer p: enter the topic's exclusive
\* section, read the topic's counter and take the next number
PublishAcquire(p, T, payload) ==
    /\ producers[p].pc = "idle"
    /\ pubCount < pubCap
    /\ topicLock[T] = "free"
    /\ topicLock' = [topicLock EXCEPT ![T] = p]
    /\ producers' = [producers EXCEPT ![p] =
                        [pc |-> "assigned", topic |-> T, payload |-> payload,
                         n |-> hubSeq[T] + 1, result |-> 0]]
    /\ pubCount' = pubCount + 1
    /\ UNCHANGED <<hubState, hubSeq, sessionState, subscribed, queue, written,
                   returned, pubCap>>
    /\ UNCHANGED <<clientVars, feedVars>>

\* mutant of PublishApply: the exclusive section ends once the state is updated
PublishApplyLeaves(p) ==
    LET T == producers[p].topic IN
    /\ producers[p].pc = "assigned"
    /\ hubSeq' = [hubSeq EXCEPT ![T] = producers[p].n]
    /\ hubState' = [hubState EXCEPT ![T] = ApplyPayload(T, @, producers[p].payload)]
    /\ returned' = [returned EXCEPT ![T] = Append(@, producers[p].n)]
    /\ producers' = [producers EXCEPT ![p].pc = "applied"]
    /\ topicLock' = [topicLock EXCEPT ![T] = "free"]
    /\ UNCHANGED <<sessionState, subscribed, queue, written, pubCount, pubCap>>
    /\ UNCHANGED <<clientVars, feedVars>>

\* Publish: store the number, apply the payload to the authoritative state
PublishApply(p) ==
    LET T == producers[p].topic IN
    /\ producers[p].pc = "assigned"
    /\ hubSeq' = [hubSeq EXCEPT ![T] = producers[p].n]
    /\ hubState' = [hubState EXCEPT ![T] = ApplyPayload(T, @, producers[p].payload)]
    /\ returned' = [returned EXCEPT ![T] = Append(@, producers[p].n)]
    /\ producers' = [producers EXCEPT ![p].pc = "applied"]
    /\ UNCHANGED <<topicLock, sessionState, subscribed, queue, written, pubCount,
                   pubCap>>
    /\ UNCHANGED <<clientVars, feedVars>>

\* sessions whose queue is full when one more envelope arrives
Overflowing == { s \in subscribed : Len(queue[s]) >= QueueBound }

\* mutant of PublishEnqueue: a full queue drops the new envelope and the
\* session stays subscribed
PublishEnqueueKeepsFull(p) ==
    LET T == producers[p].topic
        e == Envelope(T, "delta", producers[p].n,
                      DeltaPayload(T, hubState[T], producers[p].payload))
    IN
    /\ producers[p].pc = "applied"
    /\ queue' = [s \in Sessions |->
                    IF s \in subscribed \ Overflowing THEN Append(queue[s], e)
                    ELSE queue[s]]
    /\ topicLock' = [topicLock EXCEPT ![T] = "free"]
    /\ producers' = [producers EXCEPT ![p] = [Idle EXCEPT !.result = producers[p].n]]
    /\ UNCHANGED <<hubState, hubSeq, written, returned, pubCount, pubCap,
                   sessionState, subscribed>>
    /\ UNCHANGED <<clientVars, feedVars>>

\* Publish: enqueue the envelope to every subscribed session (a session whose
\* queue would overflow is dropped), leave the section, return the number
PublishEnqueue(p) ==
    LET T == producers[p].topic
        e == Envelope(T, "delta", producers[p].n,
                      DeltaPayload(T, hubState[T], producers[p].payload))
    IN
    /\ producers[p].pc = "applied"
    /\ queue' = [s \in Sessions |->
                    IF s \in Overflowing THEN <<>>
                    ELSE IF s \in subscribed THEN Append(queue[s], e)
                    ELSE queue[s]]
    /\ sessionState' = [s \in Sessions |->
                    IF s \in Overflowing THEN "closing" ELSE sessionState[s]]
    /\ subscribed' = subscribed \ Overflowing
    /\ topicLock' = [topicLock EXCEPT ![T] = "free"]
    /\ producers' = [producers EXCEPT ![p] = [Idle EXCEPT !.result = producers[p].n]]
    /\ UNCHANGED <<hubState, hubSeq, written, returned, pubCount, pubCap>>
    /\ UNCHANGED <<clientVars, feedVars>>

\* mutant of PublishInvalid: the payload is checked inside the topic's section,
\* which the rejected call never leaves
PublishInvalidHoldsSection(p, T) ==
    /\ producers[p].pc = "idle"
    /\ pubCount < pubCap
    /\ topicLock[T] = "free"
    /\ topicLock' = [topicLock EXCEPT ![T] = p]
    /\ producers' = [producers EXCEPT ![p].result = InvalidPayload]
    /\ pubCount' = pubCount + 1
    /\ UNCHANGED <<hubState, hubSeq, sessionState, subscribed, queue,
                   written, returned, pubCap>>
    /\ UNCHANGED <<clientVars, feedVars>>

\* Publish with a payload that fails the topic's shape contract
PublishInvalid(p, T) ==
    /\ producers[p].pc = "idle"
    /\ pubCount < pubCap
    /\ producers' = [producers EXCEPT ![p].result = InvalidPayload]
    /\ pubCount' = pubCount + 1
    /\ UNCHANGED <<hubState, hubSeq, topicLock, sessionState, subscribed, queue,
                   written, returned, pubCap>>
    /\ UNCHANGED <<clientVars, feedVars>>

\* mutant of Subscribe: the narrative snapshot is left out
SubscribeFour(s) ==
    /\ sessionState[s] = "connecting"
    /\ s \notin subscribed
    /\ subscribed' = subscribed \cup {s}
    /\ queue' = [queue EXCEPT ![s] = SubSeq(Snapshots(hubState, hubSeq), 1, 4)]
    /\ UNCHANGED <<hubState, hubSeq, topicLock, producers, sessionState, written,
                   returned, pubCount, pubCap>>
    /\ UNCHANGED <<clientVars, feedVars>>

\* mutant of Subscribe: it does not wait for the topics' exclusive sections
SubscribeUnserialized(s) ==
    /\ sessionState[s] = "connecting"
    /\ s \notin subscribed
    /\ subscribed' = subscribed \cup {s}
    /\ queue' = [queue EXCEPT ![s] = Snapshots(hubState, hubSeq)]
    /\ UNCHANGED <<hubState, hubSeq, topicLock, producers, sessionState, written,
                   returned, pubCount, pubCap>>
    /\ UNCHANGED <<clientVars, feedVars>>

\* Subscribe(session): register the session, return the five snapshots.  It
\* reads each topic's state and registers for its deltas inside the topic's
\* exclusive section, so that a publish is either in the copy read or pushed
\* after it (spec 5, shared-resource policy)
Subscribe(s) ==
    /\ sessionState[s] = "connecting"
    /\ s \notin subscribed
    /\ \A T \in Topics : topicLock[T] = "free"
    /\ subscribed' = subscribed \cup {s}
    /\ queue' = [queue EXCEPT ![s] = Snapshots(hubState, hubSeq)]
    /\ UNCHANGED <<hubState, hubSeq, topicLock, producers, sessionState, written,
                   returned, pubCount, pubCap>>
    /\ UNCHANGED <<clientVars, feedVars>>

\* the session's writer loop flushes the initial snapshots to the transport,
\* after which the session is active
WriterFlush(s) ==
    /\ sessionState[s] = "connecting"
    /\ s \in subscribed
    /\ written' = [written EXCEPT ![s] = SubSeq(queue[s], 1, Len(TopicOrder))]
    /\ queue' = [queue EXCEPT ![s] = SubSeq(@, Len(TopicOrder) + 1, Len(@))]
    /\ sessionState' = [sessionState EXCEPT ![s] = "active"]
    /\ UNCHANGED <<hubState, hubSeq, topicLock, producers, subscribed, returned,
                   pubCount, pubCap>>
    /\ UNCHANGED <<clientVars, feedVars>>

\* the session's writer loop writes the head of the queue to the transport
WriterSend(s) ==
    /\ sessionState[s] = "active"
    /\ queue[s] # <<>>
    /\ written' = [written EXCEPT ![s] = Append(@, Head(queue[s]))]
    /\ queue' = [queue EXCEPT ![s] = Tail(@)]
    /\ UNCHANGED sessionState
    /\ UNCHANGED <<hubState, hubSeq, topicLock, producers, subscribed, returned,
                   pubCount, pubCap>>
    /\ UNCHANGED <<clientVars, feedVars>>

\* mutant of Teardown: the queue is left as it is
TeardownKeepsQueue(s) ==
    /\ sessionState[s] = "active"
    /\ sessionState' = [sessionState EXCEPT ![s] = "closing"]
    /\ subscribed' = subscribed \ {s}
    /\ UNCHANGED <<hubState, hubSeq, topicLock, producers, written, returned,
                   pubCount, pubCap, queue>>
    /\ UNCHANGED <<clientVars, feedVars>>

\* session teardown: the queue is discarded, the session unsubscribes
Teardown(s) ==
    /\ sessionState[s] = "active"
    /\ sessionState' = [sessionState EXCEPT ![s] = "closing"]
    /\ queue' = [queue EXCEPT ![s] = <<>>]
    /\ subscribed' = subscribed \ {s}
    /\ UNCHANGED <<hubState, hubSeq, topicLock, producers, written, returned,
                   pubCount, pubCap>>
    /\ UNCHANGED <<clientVars, feedVars>>

\* a write to the transport failed
WriteError(s) == Teardown(s)

\* the client disconnected
ClientDisconnect(s) == Teardown(s)

\* the transport is released
SessionRelease(s) ==
    /\ sessionState[s] = "closing"
    /\ sessionState' = [sessionState EXCEPT ![s] = "closed"]
    /\ UNCHANGED <<hubState, hubSeq, topicLock, producers, subscribed, queue,
                   written, returned, pubCount, pubCap>>
    /\ UNCHANGED <<clientVars, feedVars>>

\* the hub at start-up; the sessions in C have just connected, the others are
\* sessions of viewers that have left
HubStart(C) ==
    /\ hubState = EmptyState
    /\ hubSeq = [T \in Topics |-> 0]
    /\ topicLock = [T \in Topics |-> "free"]
    /\ producers = [p \in Producers |-> Idle]
    /\ sessionState = [s \in Sessions |-> IF s \in C THEN "connecting" ELSE "closed"]
    /\ subscribed = {}
    /\ queue = [s \in Sessions |-> <<>>]
    /\ written = [s \in Sessions |-> <<>>]
    /\ returned = [T \in Topics |-> <<>>]
    /\ pubCount = 0

----------------------------------------------------------------------------
(* Specifications *)

----------------------------------------------------------------------------
(* The chat panel, ChatFeed.  Its two HTTP endpoints are the environment:  *)
(* a request is answered from the server's history as it stands when the   *)
(* request arrives, and the answer is handed to the panel later.  A        *)
(* message is its (character_id, content); the server is taken to store a  *)
(* posted line as the very record the panel displays.                      *)

MaxFetches == 2       \* history requests issued after the one of the mount
MaxSends == 1         \* messages the user submits

Inputs == {"hello"}
selectedCharacter == "max"

UserMessage(c) == [character_id |-> "user", content |-> c]
Reply(c) == [character_id |-> selectedCharacter, content |-> c]

Fetch(stage, body, showSpinner) ==
    [stage |-> stage, body |-> body, showSpinner |-> showSpinner]

FetchDone == Fetch("done", <<>>, FALSE)

Post(stage, content) == [stage |-> stage, content |-> content]

\* fetchChatHistory up to its await: the spinner, then the GET is on its way
fetchChatHistory(showSpinner) ==
    /\ Len(fetches) < MaxFetches + 1
    /\ loading' = (showSpinner \/ loading)
    /\ fetches' = Append(fetches, Fetch("sent", <<>>, showSpinner))

\* the setInterval(() => fetchChatHistory(false), 1000) tick
poll ==
    /\ fetchChatHistory(FALSE)
    /\ UNCHANGED <<messages, initialLoading, posts, refetch, serverHistory,
                   sentByUser>>
    /\ UNCHANGED <<clientVars, hubVars>>

\* the setTimeout(fetchChatHistory, 100) armed by sendMessage fires
refetchFires ==
    /\ refetch > 0
    /\ refetch' = refetch - 1
    /\ fetchChatHistory(FALSE)
    /\ UNCHANGED <<messages, initialLoading, posts, serverHistory, sentByUser>>
    /\ UNCHANGED <<clientVars, hubVars>>

\* GET /api/tvshow/chat/history?limit=50 reaches the server
historyServed(i) ==
    /\ fetches[i].stage = "sent"
    /\ \E ok \in BOOLEAN :
        fetches' = [fetches EXCEPT ![i] =
            IF ok THEN Fetch("answered", Last(serverHistory, ChatLimit),
                             fetches[i].showSpinner)
                  ELSE Fetch("failed", <<>>, fetches[i].showSpinner)]
    /\ UNCHANGED <<messages, loading, initialLoading, posts, refetch,
                   serverHistory, sentByUser>>
    /\ UNCHANGED <<clientVars, hubVars>>

\* fetchChatHistory after its await: setMessages(data.history || []) when
\* response.ok, then the finally block
fetchResolved(i) ==
    /\ fetches[i].stage \in {"answered", "failed"}
    /\ messages' = IF fetches[i].stage = "answered" THEN fetches[i].body
                                                    ELSE messages
    /\ loading' = IF fetches[i].showSpinner THEN FALSE ELSE loading
    /\ initialLoading' = FALSE
    /\ fetches' = [fetches EXCEPT ![i] = FetchDone]
    /\ UNCHANGED <<posts, refetch, serverHistory, sentByUser>>
    /\ UNCHANGED <<clientVars, hubVars>>

\* sendMessage up to its await: the message is displayed at once, then the
\* POST is on its way (a blank input returns before anything happens)
sendMessage(newMessage) ==
    /\ newMessage # ""
    /\ Len(posts) < MaxSends
    /\ messages' = Append(messages, UserMessage(newMessage))
    /\ posts' = Append(posts, Post("sent", newMessage))
    /\ sentByUser' = sentByUser \cup {UserMessage(newMessage)}
    /\ UNCHANGED <<loading, initialLoading, fetches, refetch, serverHistory>>
    /\ UNCHANGED <<clientVars, hubVars>>

\* POST /api/tvshow/chat reaches the server: the line and the character's
\* reply join the history, or the server refuses
chatPosted(j) ==
    /\ posts[j].stage = "sent"
    /\ \/ /\ serverHistory' = serverHistory \o
                <<UserMessage(posts[j].content), Reply("ok")>>
          /\ posts' = [posts EXCEPT ![j].stage = "accepted"]
       \/ /\ posts' = [posts EXCEPT ![j].stage = "refused"]
          /\ UNCHANGED serverHistory
    /\ UNCHANGED <<messages, loading, initialLoading, fetches, refetch,
                   sentByUser>>
    /\ UNCHANGED <<clientVars, hubVars>>

\* sendMessage after its await: if (response.ok) setTimeout(fetchChatHistory, 100)
postResolved(j) ==
    /\ posts[j].stage \in {"accepted", "refused"}
    /\ refetch' = IF posts[j].stage = "accepted" THEN refetch + 1 ELSE refetch
    /\ posts' = [posts EXCEPT ![j].stage = "done"]
    /\ UNCHANGED <<messages, loading, initialLoading, fetches, serverHistory,
                   sentByUser>>
    /\ UNCHANGED <<clientVars, hubVars>>

\* ChatFeed after its first render: useState([]) and the mount effect's
\* fetchChatHistory(true) under way
FeedStart ==
    /\ messages = <<>>
    /\ loading = TRUE
    /\ initialLoading = TRUE
    /\ fetches = <<Fetch("sent", <<>>, TRUE)>>
    /\ posts = <<>>
    /\ refetch = 0
    /\ sentByUser = {}

\* the state right after the effect ran connect() on mount
Mounted ==
    /\ build \in Builds
    /\ chat = <<>> /\ mood = <<>> /\ memory = <<>>
    /\ scene = "null" /\ narrative = <<>>
    /\ sockets = <<"CONNECTING">>
    /\ ws = 1 /\ wsRef = 1
    /\ reconnectTimeout = 0
    /\ reconnectAttempts = 0
    /\ timers = <<>>
    /\ unmounted = FALSE
    /\ lastSeq = [T \in Topics |-> 0]
    /\ delayLog = <<>>
    /\ seen = {}
    /\ envCount = 0

Init ==
    /\ Mounted
    /\ envCap = MaxEnvelopes
    /\ sockCap = MaxSockets
    /\ seqCap = 1
    /\ HubStart({}) /\ pubCap = 0
    /\ FeedStart /\ serverHistory = <<>>

SocketIds == 1..(MaxSockets + 1)

Next ==
    \/ \E t \in SocketIds : connect(t)
    \/ \E s \in SocketIds : onopen(s)
    \/ \E s \in SocketIds : onmessage(s)
    \/ \E s \in SocketIds : onclose(s)
    \/ \E s \in SocketIds : onerror(s)
    \/ cleanup

Spec == Init /\ [][Next]_vars

\* The lifecycle with the timer's guarantee: a timer set by setTimeout fires
SpecLive == Init /\ [][Next]_vars /\ WF_vars(\E t \in SocketIds : connect(t))

\* The reducer alone: a connected provider whose chat buffer a snapshot has
\* filled, receiving envelopes
InitReducer ==
    /\ build \in Builds
    /\ chat \in { History(n) : n \in {0, ChatLimit - 1, ChatLimit} }
    /\ mood = <<>> /\ memory = <<>>
    /\ scene = "null" /\ narrative = <<>>
    /\ sockets = <<"OPEN">>
    /\ ws = 1 /\ wsRef = 1
    /\ reconnectTimeout = 0
    /\ reconnectAttempts = 0
    /\ timers = <<>>
    /\ unmounted = FALSE
    /\ lastSeq = [T \in Topics |-> 0]
    /\ delayLog = <<>>
    /\ seen = {"connected"}
    /\ envCount = 0
    /\ envCap = MaxReducerEnvelopes
    /\ sockCap = 1
    /\ seqCap = MaxSeq
    /\ HubStart({}) /\ pubCap = 0
    /\ FeedStart /\ serverHistory = <<>>

NextReducer == \E s \in SocketIds : onmessage(s)

SpecReducer == InitReducer /\ [][NextReducer]_vars

\* The hub alone: producers publish while sessions subscribe and are written to
InitHub ==
    /\ Mounted /\ build = "ui"
    /\ envCap = 0 /\ sockCap = 1 /\ seqCap = 1
    /\ HubStart({"s1"}) /\ pubCap = MaxPublishes
    /\ FeedStart /\ serverHistory = <<>>

NextHub ==
    \/ \E p \in Producers, T \in Topics :
            \E payload \in HubPayloads(T) : PublishAcquire(p, T, payload)
    \/ \E p \in Producers : PublishApply(p)
    \/ \E p \in Producers : PublishEnqueue(p)
    \/ \E p \in Producers, T \in Topics : PublishInvalid(p, T)
    \/ \E s \in Sessions : Subscribe(s)
    \/ \E s \in Sessions : WriterFlush(s)
    \/ \E s \in Sessions : WriterSend(s)
    \/ \E s \in Sessions : WriteError(s)
    \/ \E s \in Sessions : ClientDisconnect(s)
    \/ \E s \in Sessions : SessionRelease(s)

SpecHub == InitHub /\ [][NextHub]_vars

\* Fan-out to two sessions: both have subscribed at hub start-up and hold
\* their initial snapshots; producers publish while the writer loops run or lag
InitFanout ==
    /\ Mounted /\ build = "ui"
    /\ envCap = 0 /\ sockCap = 1 /\ seqCap = 1
    /\ hubState = EmptyState
    /\ hubSeq = [T \in Topics |-> 0]
    /\ topicLock = [T \in Topics |-> "free"]
    /\ producers = [p \in Producers |-> Idle]
    /\ sessionState = [s \in Sessions |-> "connecting"]
    /\ subscribed = Sessions
    /\ queue = [s \in Sessions |-> Snapshots(hubState, hubSeq)]
    /\ written = [s \in Sessions |-> <<>>]
    /\ returned = [T \in Topics |-> <<>>]
    /\ pubCount = 0 /\ pubCap = MaxFanoutPublishes
    /\ FeedStart /\ serverHistory = <<>>

NextFanout ==
    \/ \E p \in Producers, T \in Topics :
            \E payload \in HubPayloads(T) : PublishAcquire(p, T, payload)
    \/ \E p \in Producers : PublishApply(p)
    \/ \E p \in Producers : PublishEnqueue(p)
    \/ \E p \in Producers, T \in Topics : PublishInvalid(p, T)
    \/ \E s \in Sessions : WriterFlush(s)
    \/ \E s \in Sessions : WriterSend(s)
    \/ \E s \in Sessions : WriteError(s)
    \/ \E s \in Sessions : ClientDisconnect(s)
    \/ \E s \in Sessions : SessionRelease(s)

SpecFanout == InitFanout /\ [][NextFanout]_vars

\* Resynchronisation: the client has lost socket 1 and opened socket 2; the
\* hub's session for socket 2 has written the five initial snapshots, which
\* the transport hands to ws.onmessage in the order written.  What the client
\* holds from before the disconnect, and what the hub holds now, are drawn
\* independently.
HubA ==
    [chat |-> <<HubMsg("max", "all", "hi", 100)>>,
     mood |-> ("leo" :> "curiosity"),
     memory |-> ("max" :> <<"e1">>),
     scene |-> "scene1",
     narrative |-> <<"arc1">>]

HubB ==
    [chat |-> <<>>,
     mood |-> ("max" :> "calm"),
     memory |-> ("max" :> <<"e2">>),
     scene |-> "scene2",
     narrative |-> <<"arc1", "arc2">>]

InitResync ==
    /\ build \in Builds
    /\ chat \in {<<>>, History(ChatLimit)}
    /\ (mood = <<>> \/ mood = ("max" :> "joy"))
    /\ (memory = <<>> \/ memory = ("leo" :> <<"e1">>))
    /\ scene \in {"null", "scene1"}
    /\ narrative \in {<<>>, <<"arc1">>}
    /\ sockets = <<"CLOSED", "OPEN">>
    /\ ws = 2 /\ wsRef = 2
    /\ reconnectTimeout = 1
    /\ reconnectAttempts = 0
    /\ timers = <<Spent>>
    /\ unmounted = FALSE
    /\ lastSeq = [T \in Topics |-> 0]
    /\ delayLog = <<>>
    /\ seen = {"connected"}
    /\ envCount = 0
    /\ envCap = Len(TopicOrder) /\ sockCap = 2 /\ seqCap = 1
    /\ (hubState = HubA \/ hubState = HubB)
    /\ hubSeq = [T \in Topics |-> 1]
    /\ topicLock = [T \in Topics |-> "free"]
    /\ producers = [p \in Producers |-> Idle]
    /\ sessionState = [s \in Sessions |-> IF s = "s1" THEN "active" ELSE "closed"]
    /\ subscribed = {"s1"}
    /\ queue = [s \in Sessions |-> <<>>]
    /\ written = [s \in Sessions |->
                    IF s = "s1" THEN Snapshots(hubState, hubSeq) ELSE <<>>]
    /\ returned = [T \in Topics |-> <<1>>]
    /\ pubCount = 0 /\ pubCap = 0
    /\ FeedStart /\ serverHistory = <<>>

\* ws.onmessage of socket s receives the next envelope session "s1" wrote; a
\* memory snapshot travels in the wire form the handler reads, {character_id,
\* log}
onmessageSnapshot(s) ==
    LET e == written["s1"][envCount + 1] IN
    /\ envCount < Len(written["s1"])
    /\ CASE e.topic = "chat" -> onmessageChat(s, e.sequence, e.payload)
         [] e.topic = "mood" -> onmessageMood(s, e.sequence, e.payload)
         [] e.topic = "memory" ->
                \E c \in DOMAIN e.payload :
                    onmessageMemory(s, e.sequence,
                                    [character_id |-> c, log |-> e.payload[c]])
         [] e.topic = "scene" -> onmessageScene(s, e.sequence, e.payload)
         [] e.topic = "narrative" -> onmessageNarrative(s, e.sequence, e.payload)

NextResync == \E s \in SocketIds : onmessageSnapshot(s)

SpecResync == InitResync /\ [][NextResync]_vars

\* The chat panel against a server whose history is empty or holds one line
InitChatFeed ==
    /\ Mounted
    /\ envCap = 0 /\ sockCap = 0 /\ seqCap = 1
    /\ HubStart({}) /\ pubCap = 0
    /\ FeedStart
    /\ serverHistory \in {<<>>, <<Reply("hi")>>}

NextChatFeed ==
    \/ poll
    \/ refetchFires
    \/ \E i \in 1..(MaxFetches + 1) : i <= Len(fetches) /\ historyServed(i)
    \/ \E i \in 1..(MaxFetches + 1) : i <= Len(fetches) /\ fetchResolved(i)
    \/ \E c \in Inputs : sendMessage(c)
    \/ \E j \in 1..MaxSends : j <= Len(posts) /\ chatPosted(j)
    \/ \E j \in 1..MaxSends : j <= Len(posts) /\ postResolved(j)

SpecChatFeed == InitChatFeed /\ [][NextChatFeed]_vars

TypeOK ==
    /\ build \in Builds
    /\ Len(chat) <= ChatLimit + 1
    /\ wsRef \in 0..Len(sockets)
    /\ reconnectAttempts \in 0..MaxReconnectAttempts

----------------------------------------------------------------------------
(* Connection lifecycle: claims C1, C2, C6, C7, C8, C10 (checked under Spec) *)

Connecting(socks) == { i \in DOMAIN socks : socks[i] \in {"CONNECTING", "OPEN"} }

\* no transport left and no retry pending
Terminal == ~SomeLive(sockets) /\ PendingTimers(timers) = {}

Increasing(log) == \A i \in 1..(Len(log) - 1) : log[i] < log[i + 1]
NonDecreasing(log) == \A i \in 1..(Len(log) - 1) : log[i] <= log[i + 1]

\* C1: after the explicit close (the effect cleanup) no reconnect timer is
\* pending or gets scheduled and no new transport is opened, whatever
\* callbacks of the transport and of the timer are still to run.
C1_CloseIsTerminal ==
    /\ [](unmounted => PendingTimers(timers) = {})
    /\ [][unmounted => (Len(timers') = Len(timers) /\ Len(sockets') = Len(sockets))]_vars

\* C2: when no attempt after the last open ever opens, the reconnects scheduled
\* have strictly increasing delays, there are never more than 10 of them, the
\* manager comes to rest only after exactly 10, and once at rest it schedules
\* and connects nothing more.
C2_TenAttemptsThenRest ==
    /\ [](/\ Len(delayLog) <= MaxReconnectAttempts
          /\ Increasing(delayLog)
          /\ (Terminal /\ ~unmounted) => (/\ Len(delayLog) = MaxReconnectAttempts
                                          /\ reconnectAttempts = MaxReconnectAttempts))
    /\ [][(Terminal /\ Len(delayLog) = MaxReconnectAttempts)
            => (Terminal' /\ timers' = timers /\ sockets' = sockets)]_vars

\* the transport was open, was lost, and ten reconnects failed in a row
C2_Witness ==
    /\ Terminal /\ ~unmounted
    /\ Len(delayLog) = MaxReconnectAttempts
    /\ Len(sockets) = MaxReconnectAttempts + 1
    /\ "connected" \in seen

C7_OpenResetsAttempts ==
    /\ [][\A s \in DOMAIN sockets :
            (sockets[s] = "CONNECTING" /\ sockets'[s] = "OPEN")
                => (reconnectAttempts' = 0 /\ delayLog' = <<>>)]_vars
    /\ [](SomeOpen(sockets) => reconnectAttempts = 0)
    /\ [][(SomeOpen(sockets) /\ Len(timers') > Len(timers))
            => (/\ timers'[Len(timers')].delay = BaseDelay
                /\ reconnectAttempts' = 1)]_vars

\* a transport opened after two failed attempts, and the counter is 0
C7_Witness ==
    /\ Len(sockets) >= 3
    /\ sockets[Len(sockets)] = "OPEN"
    /\ \A i \in 1..(Len(sockets) - 1) : sockets[i] = "CLOSED"
    /\ Len(timers) = Len(sockets) - 1
    /\ reconnectAttempts = 0

\* C8: once the retry cap is exhausted, the value handed to consumers is one
\* they were never handed while the manager was connected or while a retry was
\* pending, so they can tell 'disconnected, not retrying' from both.
C8_ExhaustionReported ==
    Status(sockets, timers, reconnectAttempts) = "exhausted" => seen = {}

\* C10: at most one transport is connecting or open, at most one reconnect
\* timer is pending, and no timer is pending while a transport is connecting or
\* open.
C10_OneAttemptOutstanding ==
    /\ Cardinality(Connecting(sockets)) <= 1
    /\ Cardinality(PendingTimers(timers)) <= 1
    /\ ~(Connecting(sockets) # {} /\ PendingTimers(timers) # {})

\* a reconnect is connecting right after its timer fired; earlier sockets are gone
C10_Witness ==
    /\ Len(sockets) >= 2
    /\ sockets[Len(sockets)] = "CONNECTING"
    /\ Len(timers) >= 1
    /\ PendingTimers(timers) = {}

----------------------------------------------------------------------------
(* Reducer: claims C3, C4, C5, C9 (checked under SpecReducer) *)

\* C3: the chat buffer never holds more than 50 messages.
C3_ChatBounded == Len(chat) <= ChatLimit

\* C4: applying a {message} delta twice in a row gives the buffer that applying
\* it once gives.
C4_DeltaIdempotent ==
    \A m \in DeltaMsgs :
        ReduceChat(build, ReduceChat(build, chat, [message |-> m]), [message |-> m])
            = ReduceChat(build, chat, [message |-> m])

\* C5: after a snapshot envelope of a topic is applied, the local state of the
\* topic is the snapshot's payload and nothing else (for memory: the one
\* character and log the payload carries).
C5_SnapshotReplaces ==
    [][\A s \in DOMAIN sockets, n \in 1..seqCap :
          /\ \A p \in ChatPayloads :
                ("history" \in DOMAIN p /\ onmessageChat(s, n, p)) => chat' = p.history
          /\ \A p \in MoodPayloads : onmessageMood(s, n, p) => mood' = p
          /\ \A p \in MemoryPayloads :
                onmessageMemory(s, n, p) => memory' = (p.character_id :> p.log)
          /\ \A p \in ScenePayloads : onmessageScene(s, n, p) => scene' = p
          /\ \A p \in NarrativePayloads : onmessageNarrative(s, n, p) => narrative' = p
      ]_vars

\* C9: an envelope of a topic whose sequence is not above the highest sequence
\* already delivered for that topic leaves the local state unchanged.
C9_StaleIgnored ==
    [][\A s \in DOMAIN sockets, n \in 1..seqCap :
          /\ \A p \in ChatPayloads :
                (n <= lastSeq["chat"] /\ onmessageChat(s, n, p)) => value' = value
          /\ \A p \in MoodPayloads :
                (n <= lastSeq["mood"] /\ onmessageMood(s, n, p)) => value' = value
          /\ \A p \in MemoryPayloads :
                (n <= lastSeq["memory"] /\ onmessageMemory(s, n, p)) => value' = value
          /\ \A p \in ScenePayloads :
                (n <= lastSeq["scene"] /\ onmessageScene(s, n, p)) => value' = value
          /\ \A p \in NarrativePayloads :
                (n <= lastSeq["narrative"] /\ onmessageNarrative(s, n, p)) => value' = value
      ]_vars

----------------------------------------------------------------------------
(* Decoding and the connection: claims C11, C17 (checked under Spec) *)

\* C11: an envelope that does not decode (unparsable text, or a known type
\* whose payload is missing) changes none of the five topic states, leaves the
\* transport as it is, leaves the attempt counter unchanged and schedules no
\* reconnect.
C11_UndecodableDiscarded ==
    [][\A s \in DOMAIN sockets, k \in MalformedKinds :
          onmessageMalformed(s, k)
              => (/\ value' = value
                  /\ sockets' = sockets
                  /\ reconnectAttempts' = reconnectAttempts
                  /\ timers' = timers)]_vars

\* C17: once the explicit close (the effect cleanup) has run, the local state
\* of no topic changes any more.
C17_NothingAppliedAfterClose ==
    [][unmounted => value' = value]_vars

----------------------------------------------------------------------------
(* Automatic reconnect: claim C12 (checked under SpecLive) *)

\* C12: when a transport closes or fails while the manager has not been closed
\* explicitly and fewer than 10 attempts have been used, a reconnect timer is
\* set in the same step; a pending timer of a manager that is not closed is
\* eventually consumed, and it is consumed by starting a new connection.
C12_ReconnectFollows ==
    /\ [][\A s \in DOMAIN sockets :
            (/\ sockets[s] # "CLOSED" /\ sockets'[s] = "CLOSED"
             /\ ~unmounted /\ reconnectAttempts < MaxReconnectAttempts)
                => (/\ Len(timers') = Len(timers) + 1
                    /\ timers'[Len(timers')].state = "pending")]_vars
    /\ [][(PendingTimers(timers) # {} /\ PendingTimers(timers') = {} /\ ~unmounted')
            => (/\ Len(sockets') = Len(sockets) + 1
                /\ sockets'[Len(sockets')] = "CONNECTING")]_vars
    /\ (PendingTimers(timers) # {} /\ ~unmounted /\ Len(sockets) < sockCap)
          ~> (PendingTimers(timers) = {} \/ unmounted)

\* the second reconnect is connecting: a timer was set after a failed attempt
\* and fired
C12_Witness ==
    /\ ~unmounted
    /\ Len(sockets) = 3
    /\ sockets = <<"CLOSED", "CLOSED", "CONNECTING">>
    /\ reconnectAttempts = 2
    /\ PendingTimers(timers) = {}

----------------------------------------------------------------------------
(* Merge rules: claims C13, C14, C15, C16 (checked under SpecReducer) *)

\* C13: a mood envelope with payload P turns local mood M into the key-merge:
\* the keys are those of M and of P, a key of P has P's label, a key of M that
\* is not in P keeps M's label.
C13_MoodKeyMerge ==
    [][\A s \in DOMAIN sockets, n \in 1..seqCap, p \in MoodPayloads :
          onmessageMood(s, n, p)
              => (/\ DOMAIN mood' = DOMAIN mood \cup DOMAIN p
                  /\ \A c \in DOMAIN p : mood'[c] = p[c]
                  /\ \A c \in DOMAIN mood \ DOMAIN p : mood'[c] = mood[c])]_vars

\* {max: joy} and {leo: curiosity} were applied
C13_Witness ==
    /\ DOMAIN mood = {"max", "leo"}
    /\ mood["max"] = "joy" /\ mood["leo"] = "curiosity"

\* C14: a memory envelope {character_id: c, log: L} makes the local log of c
\* exactly L and leaves the log of every other character as it was.
C14_MemoryReplaceByKey ==
    [][\A s \in DOMAIN sockets, n \in 1..seqCap, p \in MemoryPayloads :
          onmessageMemory(s, n, p)
              => (/\ DOMAIN memory' = DOMAIN memory \cup {p.character_id}
                  /\ memory'[p.character_id] = p.log
                  /\ \A c \in DOMAIN memory \ {p.character_id} :
                        memory'[c] = memory[c])]_vars

\* the logs of two characters were set, one after the other
C14_Witness ==
    /\ DOMAIN memory = {"max", "leo"}
    /\ envCount = 2

\* C15: a scene envelope, and a narrative envelope, makes the local value of
\* its topic exactly its payload, whatever the value was; so the value is the
\* payload of the last envelope received and a repeated envelope changes nothing.
C15_SceneNarrativeReplace ==
    [][\A s \in DOMAIN sockets, n \in 1..seqCap :
          /\ \A p \in ScenePayloads :
                onmessageScene(s, n, p)
                    => (scene' = p /\ (scene = p => value' = value))
          /\ \A p \in NarrativePayloads :
                onmessageNarrative(s, n, p)
                    => (narrative' = p /\ (narrative = p => value' = value))]_vars

\* scene2 replaced an earlier scene (two scene envelopes were delivered)
C15_Witness ==
    /\ scene = "scene2"
    /\ lastSeq["scene"] >= 1
    /\ envCount = 2
    /\ mood = <<>> /\ memory = <<>> /\ narrative = <<>>
    /\ \E k \in {0, ChatLimit - 1, ChatLimit} : chat = History(k)

\* C16: a {message} delta that repeats the last retained message (same sender,
\* same content, timestamp not later) is dropped; a delta that differs from the
\* last retained message in sender or content is appended.
C16_DropOnlyRepeatOfLast ==
    [][\A s \in DOMAIN sockets, n \in 1..seqCap, m \in DeltaMsgs :
          (onmessageChat(s, n, [message |-> m]) /\ Len(chat) > 0)
              => LET last == chat[Len(chat)]
                 IN IF /\ m.character_id = last.character_id
                       /\ m.content = last.content
                    THEN m.timestamp <= last.timestamp => chat' = chat
                    ELSE chat' = Last(Append(chat, m), ChatLimit)]_vars

----------------------------------------------------------------------------
(* Resynchronisation after a reconnect: claim C18 (checked under SpecResync) *)

\* C18: once the reconnected client has applied the hub's initial snapshot of
\* each of the five topics, its local state of every topic equals the hub's
\* authoritative state, whatever it held before the reconnect.
C18_ResyncEqualsHub ==
    (\A T \in Topics : lastSeq[T] >= 1) => value = hubState

----------------------------------------------------------------------------
(* The hub: claims C19, C20 (checked under SpecHub) *)

StrictlyIncreasing(q) == \A i, j \in DOMAIN q : i < j => q[i] < q[j]

\* C19: for every topic, the sequence numbers Publish assigns, in the order the
\* publishes take effect, are strictly increasing (so none is assigned twice),
\* whichever way publishers on the same and on different topics interleave.
C19_SequenceStrictlyIncreasing ==
    \A T \in Topics : StrictlyIncreasing(returned[T])

\* both producers have published chat, and each was returned its own number
C19_Witness ==
    /\ returned["chat"] = <<1, 2>>
    /\ { producers[p].result : p \in Producers } = {1, 2}

\* the order in which envelopes leave session s
Outbound(s) == written[s] \o queue[s]

----------------------------------------------------------------------------
(* Frame of an envelope, error callbacks: claims C27, C28 (checked under Spec) *)

Reconnection == <<reconnectAttempts, timers, reconnectTimeout>>

\* C27: an envelope of topic T changes the local state of T only: the other
\* four topics, the attempt counter and the timers stay as they were; an
\* envelope whose type is none of the five topics changes nothing.
C27_OnlyOwnTopic ==
    [][\A s \in DOMAIN sockets, n \in 1..seqCap :
          /\ \A p \in ChatPayloads :
                onmessageChat(s, n, p)
                    => UNCHANGED <<mood, memory, scene, narrative, Reconnection>>
          /\ \A p \in MoodPayloads :
                onmessageMood(s, n, p)
                    => UNCHANGED <<chat, memory, scene, narrative, Reconnection>>
          /\ \A p \in MemoryPayloads :
                onmessageMemory(s, n, p)
                    => UNCHANGED <<chat, mood, scene, narrative, Reconnection>>
          /\ \A p \in ScenePayloads :
                onmessageScene(s, n, p)
                    => UNCHANGED <<chat, mood, memory, narrative, Reconnection>>
          /\ \A p \in NarrativePayloads :
                onmessageNarrative(s, n, p)
                    => UNCHANGED <<chat, mood, memory, scene, Reconnection>>
          /\ onmessageDefault(s) => UNCHANGED <<value, Reconnection>>]_vars

\* arcs arrived on the socket of the second connection
C27_Witness ==
    /\ Len(sockets) = 2 /\ sockets[2] = "OPEN"
    /\ narrative = <<"arc1", "arc2">>
    /\ envCount = 1
    /\ Len(timers) = 1

\* C28: the error callback of socket s closes s and no other socket; in
\* particular it never closes a socket that a later connect() created.
C28_ErrorClosesOwnSocket ==
    [][\A s \in DOMAIN sockets :
          onerror(s)
              => (/\ sockets'[s] = "CLOSED"
                  /\ \A t \in DOMAIN sockets \ {s} : sockets'[t] = sockets[t])]_vars

\* the second connection failed while open, after the first had failed
C28_Witness ==
    /\ Len(sockets) = 2
    /\ sockets = <<"CLOSED", "CLOSED">>
    /\ Len(timers) = 2 /\ timers[2].state = "pending"
    /\ reconnectAttempts = 1
    /\ envCount = 1

----------------------------------------------------------------------------
(* Order of the chat buffer: claim C29 (checked under SpecReducer) *)

\* C29: a {message} delta that is accepted becomes the last element and the
\* earlier messages keep their order: below 50 messages the buffer is the old
\* one with the message appended; at 50 the first message, and only it, is
\* evicted and the length stays 50.
C29_AppendEvictsOldest ==
    [][\A s \in DOMAIN sockets, n \in 1..seqCap, m \in DeltaMsgs :
          (onmessageChat(s, n, [message |-> m]) /\ chat' # chat)
              => (/\ chat'[Len(chat')] = m
                  /\ Len(chat) < ChatLimit => chat' = Append(chat, m)
                  /\ Len(chat) = ChatLimit => chat' = Append(Tail(chat), m)
                  /\ \E k \in 1..Len(chat) + 1 :
                        SubSeq(chat', 1, Len(chat') - 1) = SubSeq(chat, k, Len(chat)))]_vars

\* a full buffer took a new message and lost its first one
C29_Witness ==
    /\ Len(chat) = ChatLimit
    /\ chat[1] = Msg("max", "h", 2)
    /\ chat[ChatLimit] = Msg("leo", "a", ChatLimit + 10)
    /\ envCount = 1

----------------------------------------------------------------------------
(* Queue overflow: claim C21 (checked under SpecFanout) *)

Gone == {"closing", "closed"}

----------------------------------------------------------------------------
(* Session state machine: claim C22 (checked under SpecHub) *)

Moved(s, from, to) == sessionState[s] = from /\ sessionState'[s] = to

\* a session is active only with its five snapshots written, and a session
\* that is closing or closed is not subscribed and has an empty queue
SessionShape ==
    \A s \in Sessions :
        /\ sessionState[s] = "active"
              => (/\ Len(written[s]) >= Len(TopicOrder)
                  /\ \A i \in 1..Len(TopicOrder) : written[s][i].kind = "snapshot")
        /\ sessionState[s] = "connecting" => written[s] = <<>>
        /\ sessionState[s] \in Gone => (s \notin subscribed /\ queue[s] = <<>>)

----------------------------------------------------------------------------
(* Publish and delivery: claims C23, C24, C25, C26 (checked under SpecHub) *)

\* C23: a Publish whose payload fails the shape contract returns
\* InvalidPayload, enqueues nothing, and leaves every topic's state, counter
\* and history, the sessions and the other producers as they were, so that
\* nothing stands in the way of later publishes.
C23_InvalidPayloadRejected ==
    [][\A p \in Producers, T \in Topics :
          PublishInvalid(p, T)
              => (/\ producers'[p].result = InvalidPayload
                  /\ producers'[p].pc = "idle"
                  /\ \A q \in Producers \ {p} : producers'[q] = producers[q]
                  /\ UNCHANGED <<hubState, hubSeq, returned, topicLock, queue,
                                 written, subscribed, sessionState>>)]_vars

\* one producer was refused, the other then published chat twice
C23_Witness ==
    \E p, q \in Producers :
        /\ producers[p].result = InvalidPayload
        /\ producers[q].result = 2
        /\ returned["chat"] = <<1, 2>>
        /\ pubCount = 3

DeltasOf(s, T) ==
    { Outbound(s)[i].sequence :
        i \in { k \in DOMAIN Outbound(s) :
                    Outbound(s)[k].kind = "delta" /\ Outbound(s)[k].topic = T } }

\* sequence number of the snapshot of topic T that session s was returned
SnapshotSeq(s, T) ==
    LET i == CHOOSE k \in 1..Len(TopicOrder) : TopicOrder[k] = T
    IN Outbound(s)[i].sequence

\* publishes of topic T that took effect and have not been enqueued yet
InFlight(T) ==
    { producers[p].n : p \in { q \in Producers :
                                  producers[q].pc = "applied" /\ producers[q].topic = T } }

FifoStep(old, new, added) ==
    /\ Len(new) = Min(Len(old) + Len(added), HistoryK)
    /\ \A i \in 1..Len(new) :
          new[i] = (old \o added)[i + (Len(old) + Len(added) - Len(new))]

C26_HistoryFifoBounded ==
    /\ [](/\ Len(hubState["chat"]) <= HistoryK
          /\ \A c \in DOMAIN hubState["memory"] :
                Len(hubState["memory"][c]) <= HistoryK)
    /\ [][\A p \in Producers :
            PublishApply(p)
                => /\ producers[p].topic = "chat"
                      => FifoStep(hubState["chat"], hubState'["chat"],
                                  <<producers[p].payload.message>>)
                   /\ producers[p].topic = "memory"
                      => FifoStep(LogOf(hubState["memory"],
                                        producers[p].payload.character_id),
                                  hubState'["memory"][producers[p].payload.character_id],
                                  producers[p].payload.log)]_vars

\* after K + 1 chat publishes the first message is gone and the last one is
\* the newest
C26_Witness ==
    /\ hubSeq["chat"] = HistoryK + 1
    /\ Len(hubState["chat"]) = HistoryK
    /\ hubState["chat"][1] = HubMsg("leo", "max", "yo", 101)
    /\ hubState["chat"][HistoryK] = HubMsg("max", "all", "hi", 100)

\* C30: a user message that sendMessage put on display stays on display in
\* every later state, whatever the order of the poll responses, the POST
\* response and the delayed re-fetch.
C30_UserMessageStays ==
    \A m \in sentByUser : \E i \in DOMAIN messages : messages[i] = m

====
